---- MODULE Spec2Model ----
(***************************************************************************)
(* Model of the rollback command of go-rollback (the version that handles  *)
(* both a single rollout.yaml and a directory of them).                    *)
(*                                                                         *)
(* Strings are sequences of one-character strings, so that TrimSpace,      *)
(* Split, ToLower, HasSuffix, Atoi and Itoa are computed character by      *)
(* character as the Go library computes them.                              *)
(*                                                                         *)
(* The environment (the file system, git, the operator at the terminal)    *)
(* is nondeterministic: the file system is chosen in Init, the result of   *)
(* each git command and each line typed are chosen when the program asks.  *)
(* Everything the program does that is visible from outside (a git         *)
(* command, a line read from stdin, a message printed) is appended to      *)
(* `events`, in program order.                                             *)
(***************************************************************************)
EXTENDS Integers, Sequences, FiniteSets, TLC

VARIABLES
    pc,          \* position of the (single) thread of control
    exitCode,    \* -1 while running, else the process exit status
    inputPath,   \* args[0]
    fs,          \* indices of FSUniverse that exist on disk
    events,      \* everything observable the program did, in order
    files,       \* handleDirectoryRolloutFiles: result of countRolloutFiles
    fileIdx,     \* handleDirectoryRolloutFiles: position of the range loop
    inDir,       \* TRUE when handleSingleRolloutFile was called from the loop
    filePath,    \* handleSingleRolloutFile: its argument
    history,     \* handleSingleRolloutFile: result of getFileGitHistory
    commit,      \* handleSingleRolloutFile: revision handed to rollbackToCommit
    worktree,    \* git: path -> revision restored but not committed (<<>> = clean)
    commits,     \* git: commits created by this run, in order
    invalidCount \* number of rejected inputs so far (bounded for checking)

vars == <<pc, exitCode, inputPath, fs, events, files, fileIdx, inDir, filePath,
          history, commit, worktree, commits, invalidCount>>

----------------------------------------------------------------------------
(* Bounds of the model *)

\* git log is asked for at most 10 entries; the model lets git return 0..MaxHistory
MaxHistory == 3

\* total number of rejected revision inputs in one run (the loop itself has no
\* limit); two or more may be consecutive at one prompt
MaxInvalid == 2

----------------------------------------------------------------------------
(* String literals *)

RolloutName == <<"r","o","l","l","o","u","t",".","y","a","m","l">>
RolloutCaps == <<"R","o","l","l","o","u","t",".","Y","A","M","L">>
NotesName   == <<"n","o","t","e","s",".","t","x","t">>
StrTrue     == <<"t","r","u","e">>
StrYes      == <<"y","e","s">>
StrMaster   == <<"m","a","s","t","e","r">>
StrDevelop  == <<"d","e","v","e","l","o","p">>
StrMain     == <<"m","a","i","n">>
StrFeature  == <<"f","e","a","t","u","r","e">>

UpperChars == <<"A","B","C","D","E","F","G","H","I","J","K","L","M",
                "N","O","P","Q","R","S","T","U","V","W","X","Y","Z">>
LowerChars == <<"a","b","c","d","e","f","g","h","i","j","k","l","m",
                "n","o","p","q","r","s","t","u","v","w","x","y","z">>
DigitChars == <<"0","1","2","3","4","5","6","7","8","9">>

----------------------------------------------------------------------------
(* Go library functions the program calls, computed as the library does *)

SetMin(S) == CHOOSE x \in S : \A y \in S : x <= y
SetMax(S) == CHOOSE x \in S : \A y \in S : x >= y

\* unicode.IsSpace restricted to ASCII
IsSpace(c) == c \in {" ", "\n", "\t", "\r", "\f"}

\* strings.TrimSpace
TrimSpace(s) ==
    LET keep == {i \in 1..Len(s) : ~IsSpace(s[i])}
    IN  IF keep = {} THEN <<>> ELSE SubSeq(s, SetMin(keep), SetMax(keep))

\* strings.Split(s, sep) for a one-character separator; Split("", sep) = [""]
RECURSIVE Split(_, _)
Split(s, sep) ==
    LET hits == {i \in 1..Len(s) : s[i] = sep}
    IN  IF hits = {} THEN <<s>>
        ELSE LET i == SetMin(hits)
             IN  <<SubSeq(s, 1, i - 1)>> \o Split(SubSeq(s, i + 1, Len(s)), sep)

ToLowerChar(c) ==
    IF \E i \in 1..26 : UpperChars[i] = c
    THEN LowerChars[CHOOSE i \in 1..26 : UpperChars[i] = c]
    ELSE c

\* strings.ToLower (ASCII)
ToLower(s) == [i \in 1..Len(s) |-> ToLowerChar(s[i])]

\* strings.EqualFold (ASCII)
EqualFold(a, b) == ToLower(a) = ToLower(b)

\* strings.HasSuffix
HasSuffix(s, suffix) ==
    /\ Len(s) >= Len(suffix)
    /\ SubSeq(s, Len(s) - Len(suffix) + 1, Len(s)) = suffix

IsDigit(c) == \E i \in 1..10 : DigitChars[i] = c
DigitVal(c) == (CHOOSE i \in 1..10 : DigitChars[i] = c) - 1

RECURSIVE DigitsVal(_)
DigitsVal(s) ==
    IF s = <<>> THEN 0
    ELSE 10 * DigitsVal(SubSeq(s, 1, Len(s) - 1)) + DigitVal(s[Len(s)])

\* strconv.Atoi: optional sign, then at least one decimal digit and nothing else
Atoi(s) ==
    LET signed == Len(s) > 0 /\ s[1] \in {"+", "-"}
        digits == IF signed THEN SubSeq(s, 2, Len(s)) ELSE s
        ok     == Len(digits) > 0 /\ \A i \in 1..Len(digits) : IsDigit(digits[i])
    IN  IF ~ok THEN [err |-> TRUE, val |-> 0]
        ELSE [err |-> FALSE,
              val |-> IF signed /\ s[1] = "-" THEN 0 - DigitsVal(digits)
                      ELSE DigitsVal(digits)]

\* strconv.Itoa
RECURSIVE Itoa(_)
Itoa(n) ==
    IF n < 0 THEN <<"-">> \o Itoa(0 - n)
    ELSE IF n < 10 THEN <<DigitChars[n + 1]>>
    ELSE Itoa(n \div 10) \o <<DigitChars[(n % 10) + 1]>>

\* os.FileInfo.Name(): the last element of the path
Name(path) ==
    LET slashes == {i \in 1..Len(path) : path[i] = "/"}
    IN  IF slashes = {} THEN path ELSE SubSeq(path, SetMax(slashes) + 1, Len(path))

----------------------------------------------------------------------------
(* The environment: file system, git, operator *)

DirName == <<"d">>

\* Every path that can exist, in the order filepath.Walk visits them
\* (lexical within each directory).  "unreadable" is a directory whose
\* listing fails.
FSUniverse == <<
    [path |-> RolloutCaps,                                  kind |-> "file"],
    [path |-> DirName,                                      kind |-> "dir"],
    [path |-> DirName \o <<"/">> \o RolloutCaps,            kind |-> "file"],
    [path |-> DirName \o <<"/","a">>,                       kind |-> "dir"],
    [path |-> DirName \o <<"/","a","/">> \o RolloutName,    kind |-> "file"],
    [path |-> DirName \o <<"/","z">>,                       kind |-> "unreadable"],
    [path |-> NotesName,                                    kind |-> "file"],
    [path |-> RolloutName,                                  kind |-> "file"] >>

AllPaths == {FSUniverse[i].path : i \in 1..Len(FSUniverse)}

InputPaths == {RolloutName, RolloutCaps, NotesName, DirName}

\* p is root or lies below it
IsUnder(p, root) ==
    \/ p = root
    \/ /\ Len(p) > Len(root)
       /\ SubSeq(p, 1, Len(root)) = root
       /\ p[Len(root) + 1] = "/"

\* the file systems in which `root` is the only top-level entry (or is missing)
FileSystems(root) ==
    {S \in SUBSET (1..Len(FSUniverse)) :
        /\ \A i \in S : IsUnder(FSUniverse[i].path, root)
        /\ \A i \in S : \A j \in 1..Len(FSUniverse) :
              (j # i /\ IsUnder(FSUniverse[i].path, FSUniverse[j].path)) => j \in S}

\* os.Stat
Stat(path) ==
    IF \E i \in fs : FSUniverse[i].path = path
    THEN FSUniverse[CHOOSE i \in fs : FSUniverse[i].path = path].kind
    ELSE "missing"

\* abbreviated hash of the k-th most recent commit of a file
Hash(k) == <<"a","b","c">> \o Itoa(k)

\* one line of `git log --pretty=format:"%h, %an, %ad, %s"`
Entry(k) == Hash(k) \o <<",", " ", "A", ",", " ", "D", ",", " ", "s", ",", "t">>

\* output of git log for a file with L commits (entries separated by newlines)
RECURSIVE GitLogOutput(_)
GitLogOutput(L) ==
    IF L = 0 THEN <<>>
    ELSE IF L = 1 THEN Entry(1)
    ELSE GitLogOutput(L - 1) \o <<"\n">> \o Entry(L)

\* results of `git rev-parse --is-inside-work-tree`
RevParseResults ==
    { [ok |-> FALSE, out |-> <<>>],
      [ok |-> TRUE,  out |-> StrTrue \o <<"\n">>],
      [ok |-> TRUE,  out |-> <<"f","a","l","s","e","\n">>] }

\* results of `git branch --show-current` ("\n" alone: detached HEAD)
BranchResults ==
    { [ok |-> FALSE, out |-> <<>>],
      [ok |-> TRUE,  out |-> StrMaster  \o <<"\n">>],
      [ok |-> TRUE,  out |-> StrDevelop \o <<"\n">>],
      [ok |-> TRUE,  out |-> StrMain    \o <<"\n">>],
      [ok |-> TRUE,  out |-> StrFeature \o <<"\n">>] }

\* the -n argument of git log
LogLimit == 10

\* results of git log: failure, or the LogLimit most recent entries of a file
\* that has 0..MaxHistory commits
LogResults ==
    { [ok |-> FALSE, out |-> <<>>] } \cup
    { [ok |-> TRUE, out |-> GitLogOutput(IF L < LogLimit THEN L ELSE LogLimit)] :
        L \in 0..MaxHistory }

\* lines the operator may type at the revision prompt that lists history h:
\* every number from 0 to one past the last entry listed, a signed number, text
\* that is no number, and <<>> (a blank line or the end of input)
IndexInputs(h) ==
    { <<DigitChars[k + 1]>> : k \in 0..(Len(h) + 1) } \cup
    { <<>>, <<"+","2">>, <<"2","x">> }

\* lines the operator may type at the yes/no confirmation
ConfirmInputs ==
    { StrYes, <<"Y","E","S">>, <<"n","o">>, <<>>, <<"y">>,
      <<"y","e","s"," ">> }

Ev(op, path, arg, n, ok) == [op |-> op, path |-> path, arg |-> arg, n |-> n, ok |-> ok]
Printed(op, path, n) == Ev(op, path, <<>>, n, TRUE)

----------------------------------------------------------------------------
(* The program *)

\* the guard with "main" forgotten
protectedBranches_NoMain == {StrMaster, StrDevelop}

protectedBranches == {StrMaster, StrDevelop, StrMain}

\* isGitRepo: the error it returns, given what the two git queries answer
isGitRepo(rp, br) ==
    IF ~rp.ok THEN "not a git repository"
    ELSE IF TrimSpace(rp.out) # StrTrue THEN "not a git repository"
    ELSE IF ~br.ok THEN "failed to get the current branch"
    ELSE IF TrimSpace(br.out) \in protectedBranches THEN "protected branch"
    ELSE "nil"

\* the git commands isGitRepo runs: the branch query only inside a work tree
isGitRepoCalls(rp, br) ==
    <<Ev("git.revparse", <<>>, rp.out, 0, rp.ok)>> \o
    (IF rp.ok /\ TrimSpace(rp.out) = StrTrue
     THEN <<Ev("git.branch", <<>>, br.out, 0, br.ok)>>
     ELSE <<>>)

\* getFileGitHistory: error and history, given what git log answers
getFileGitHistory(res) ==
    IF ~res.ok THEN [err |-> TRUE, history |-> <<>>]
    ELSE [err |-> FALSE, history |-> Split(TrimSpace(res.out), "\n")]

\* countRolloutFiles: filepath.Walk from dirPath, keeping the non-directories
\* whose name equals "rollout.yaml" ignoring case; any walk error drops them all
countRolloutFiles(dirPath) ==
    LET Visited(e) == /\ \E i \in fs : FSUniverse[i] = e
                      /\ IsUnder(e.path, dirPath)
        Keep(e)    == e.kind # "dir" /\ EqualFold(Name(e.path), RolloutName)
        visited    == SelectSeq(FSUniverse, Visited)
        kept       == SelectSeq(visited, Keep)
    IN  IF visited = <<>> \/ \E i \in 1..Len(visited) : visited[i].kind = "unreadable"
        THEN [err |-> TRUE, files |-> <<>>]
        ELSE [err |-> FALSE, files |-> [i \in 1..Len(kept) |-> kept[i].path]]

\* the confirmation aborting only on a literal "no"
Confirmed_UnlessNo(response) == ToLower(response) # <<"n","o">>

\* handleDirectoryRolloutFiles: the test on the operator's answer
Confirmed(response) == ToLower(response) = StrYes

\* the default pointing at the most recent revision
DefaultIndex_First(h) == 1

\* handleSingleRolloutFile: the default shown in the prompt
DefaultIndex(h) == IF Len(h) < 2 THEN Len(h) ELSE 2

\* the rejection test without its upper bound
InvalidIndex_NoUpper(a, h) == a.err \/ a.val < 1

\* handleSingleRolloutFile: the rejection test on the parsed input
InvalidIndex(a, h) == a.err \/ a.val < 1 \/ a.val > Len(h)

\* handleSingleRolloutFile: the revision identifier of the chosen entry
SelectCommit(h, index) == Split(h[index], ",")[1]

\* the rollback never skipped (index 1 is checked out like any other)
IsNoop_Never(index) == FALSE

\* handleSingleRolloutFile: the test that skips the rollback
IsNoop(index) == index = 1

\* the error of git checkout ignored
CheckoutFailed_Ignored(ok) == FALSE

\* rollbackToCommit: the test after git checkout
CheckoutFailed(ok) == ~ok

\* os.Exit(code), after printing `evs`
Exit(code, evs) ==
    /\ events' = events \o evs
    /\ pc' = "exit"
    /\ exitCode' = code

\* handleSingleRolloutFile returns: to main (which returns, status 0) or to
\* the range loop of handleDirectoryRolloutFiles
ReturnSingle(evs) ==
    IF inDir /\ fileIdx < Len(files)
    THEN /\ events' = events \o evs
         /\ fileIdx' = fileIdx + 1
         /\ filePath' = files[fileIdx + 1]
         /\ pc' = "getFileGitHistory"
         /\ UNCHANGED <<exitCode, inDir>>
    ELSE /\ Exit(0, evs)
         /\ UNCHANGED <<fileIdx, filePath, inDir>>

\* the error reported, and a return to the caller instead of os.Exit(1)
FailSingle_Return(evs) == ReturnSingle(evs)

\* handleSingleRolloutFile reports an error and ends the process
FailSingle(evs) ==
    /\ Exit(1, evs)
    /\ UNCHANGED <<fileIdx, filePath, inDir>>

Init ==
    /\ pc = "main"
    /\ exitCode = -1
    /\ inputPath \in InputPaths
    /\ fs \in FileSystems(inputPath)
    /\ events = <<>>
    /\ files = <<>>
    /\ fileIdx = 0
    /\ inDir = FALSE
    /\ filePath = <<>>
    /\ history = <<>>
    /\ commit = <<>>
    /\ worktree = [p \in AllPaths |-> <<>>]
    /\ commits = <<>>
    /\ invalidCount = 0

\* main: os.Stat(inputPath)
main_Stat ==
    /\ pc = "main"
    /\ IF Stat(inputPath) = "missing"
       THEN Exit(1, <<Printed("print.missing", inputPath, 0)>>)
       ELSE /\ pc' = "isGitRepo"
            /\ UNCHANGED <<events, exitCode>>
    /\ UNCHANGED <<inputPath, fs, files, fileIdx, inDir, filePath, history, commit,
                   worktree, commits, invalidCount>>

\* main: the repository guard, then the choice of flow by the path's suffix
main_isGitRepo ==
    /\ pc = "isGitRepo"
    /\ \E rp \in RevParseResults, br \in BranchResults :
         LET err   == isGitRepo(rp, br)
             calls == isGitRepoCalls(rp, br)
         IN  IF err # "nil"
             THEN /\ Exit(1, calls \o <<Printed("print.error", <<>>, 0)>>)
                  /\ UNCHANGED <<filePath, inDir>>
             ELSE /\ events' = events \o calls
                  /\ UNCHANGED exitCode
                  /\ IF HasSuffix(inputPath, RolloutName)
                     THEN /\ pc' = "getFileGitHistory"
                          /\ filePath' = inputPath
                          /\ inDir' = FALSE
                     ELSE /\ pc' = "countRolloutFiles"
                          /\ UNCHANGED <<filePath, inDir>>
    /\ UNCHANGED <<inputPath, fs, files, fileIdx, history, commit, worktree, commits,
                   invalidCount>>

\* handleDirectoryRolloutFiles: the walk and the report of what it found
handleDirectoryRolloutFiles_Walk ==
    /\ pc = "countRolloutFiles"
    /\ LET r == countRolloutFiles(inputPath)
       IN  IF r.err
           THEN /\ Exit(1, <<Printed("print.walkError", inputPath, 0)>>)
                /\ UNCHANGED files
           ELSE /\ files' = r.files
                /\ events' = events \o <<Printed("print.found", inputPath, Len(r.files))>>
                /\ pc' = "confirm"
                /\ UNCHANGED exitCode
    /\ UNCHANGED <<inputPath, fs, fileIdx, inDir, filePath, history, commit, worktree,
                   commits, invalidCount>>

\* handleDirectoryRolloutFiles: the yes/no confirmation and the start of the loop
handleDirectoryRolloutFiles_Confirm ==
    /\ pc = "confirm"
    /\ \E response \in ConfirmInputs :
         LET read == Ev("read.confirm", inputPath, response, Len(files), TRUE)
         IN  IF ~Confirmed(response)
             THEN /\ Exit(0, <<read, Printed("print.aborted", inputPath, 0)>>)
                  /\ UNCHANGED <<fileIdx, filePath, inDir>>
             ELSE IF files = <<>>
             THEN /\ Exit(0, <<read, Printed("print.proceeding", inputPath, 0)>>)
                  /\ UNCHANGED <<fileIdx, filePath, inDir>>
             ELSE /\ events' = events \o <<read, Printed("print.proceeding", inputPath, 0)>>
                  /\ fileIdx' = 1
                  /\ filePath' = files[1]
                  /\ inDir' = TRUE
                  /\ pc' = "getFileGitHistory"
                  /\ UNCHANGED exitCode
    /\ UNCHANGED <<inputPath, fs, files, history, commit, worktree, commits,
                   invalidCount>>

\* handleSingleRolloutFile: the call of getFileGitHistory
handleSingleRolloutFile_History ==
    /\ pc = "getFileGitHistory"
    /\ \E res \in LogResults :
         LET r    == getFileGitHistory(res)
             call == Ev("git.log", filePath, res.out, 0, res.ok)
         IN  IF r.err
             THEN /\ FailSingle(<<call, Printed("print.historyError", filePath, 0)>>)
                  /\ UNCHANGED history
             ELSE /\ history' = r.history
                  /\ events' = events \o
                        <<call, Printed("print.history", filePath, Len(r.history))>>
                  /\ pc' = "prompt"
                  /\ UNCHANGED <<exitCode, fileIdx, filePath, inDir>>
    /\ UNCHANGED <<inputPath, fs, files, commit, worktree, commits, invalidCount>>

\* handleSingleRolloutFile: one iteration of the prompt loop
handleSingleRolloutFile_Prompt ==
    /\ pc = "prompt"
    /\ \E text \in IndexInputs(history) :
         LET defaultIndex == DefaultIndex(history)
             input == IF text = <<>> THEN Itoa(defaultIndex) ELSE text
             a     == Atoi(input)
             read  == Ev("read.index", filePath, text, Len(history), TRUE)
         IN  IF InvalidIndex(a, history)
             THEN /\ invalidCount < MaxInvalid
                  /\ invalidCount' = invalidCount + 1
                  /\ events' = events \o <<read, Printed("print.invalid", filePath, 0)>>
                  /\ UNCHANGED <<pc, exitCode, fileIdx, filePath, inDir, commit>>
             ELSE IF IsNoop(a.val)
             THEN /\ ReturnSingle(<<read, Printed("print.noop", filePath, 0)>>)
                  /\ UNCHANGED <<commit, invalidCount>>
             ELSE IF a.val \notin 1..Len(history)
             THEN \* history[index-1] out of range: the Go runtime panics, status 2
                  /\ Exit(2, <<read, Printed("print.panic", filePath, 0)>>)
                  /\ UNCHANGED <<fileIdx, filePath, inDir, commit, invalidCount>>
             ELSE /\ commit' = SelectCommit(history, a.val)
                  /\ events' = events \o <<read>>
                  /\ pc' = "checkout"
                  /\ UNCHANGED <<exitCode, fileIdx, filePath, inDir, invalidCount>>
    /\ UNCHANGED <<inputPath, fs, files, history, worktree, commits>>

\* rollbackToCommit: git checkout <commit> -- <filePath>
rollbackToCommit_Checkout ==
    /\ pc = "checkout"
    /\ \E ok \in BOOLEAN :
         LET call == Ev("git.checkout", filePath, commit, 0, ok)
         IN  /\ worktree' = IF ok THEN [worktree EXCEPT ![filePath] = commit]
                            ELSE worktree
             /\ IF CheckoutFailed(ok)
                THEN FailSingle(<<call, Printed("print.rollbackError", filePath, 0)>>)
                ELSE /\ events' = events \o <<call>>
                     /\ pc' = "commit"
                     /\ UNCHANGED <<exitCode, fileIdx, filePath, inDir>>
    /\ UNCHANGED <<inputPath, fs, files, history, commit, commits, invalidCount>>

\* rollbackToCommit: git commit -m <message> <filePath>, and the return to
\* handleSingleRolloutFile
rollbackToCommit_Commit ==
    /\ pc = "commit"
    /\ \E ok \in BOOLEAN :
         LET call == Ev("git.commit", filePath, commit, 0, ok)
         IN  IF ok
             THEN /\ commits' = Append(commits, [path |-> filePath, rev |-> commit])
                  /\ worktree' = [worktree EXCEPT ![filePath] = <<>>]
                  /\ ReturnSingle(<<call, Printed("print.success", filePath, 0)>>)
             ELSE /\ UNCHANGED <<commits, worktree>>
                  /\ FailSingle(<<call, Printed("print.rollbackError", filePath, 0)>>)
    /\ UNCHANGED <<inputPath, fs, files, history, commit, invalidCount>>

Next ==
    \/ main_Stat
    \/ main_isGitRepo
    \/ handleDirectoryRolloutFiles_Walk
    \/ handleDirectoryRolloutFiles_Confirm
    \/ handleSingleRolloutFile_History
    \/ handleSingleRolloutFile_Prompt
    \/ rollbackToCommit_Checkout
    \/ rollbackToCommit_Commit

Spec == Init /\ [][Next]_vars

----------------------------------------------------------------------------
(* Vocabulary of the properties *)

N == Len(events)

GitWorkOps == {"git.log", "git.checkout", "git.commit"}
ReadOps    == {"read.confirm", "read.index"}

NoGitWork == \A j \in 1..N : events[j].op \notin GitWorkOps
NoRead    == \A j \in 1..N : events[j].op \notin ReadOps

\* what the operator's line means as a number, independently of the parser
NumericTexts ==
    { [text |-> <<DigitChars[k + 1]>>, val |-> k] : k \in 0..9 } \cup
    { [text |-> <<"+","2">>, val |-> 2] }

IsNumeric(text) == \E r \in NumericTexts : r.text = text
ValueOf(text)   == (CHOOSE r \in NumericTexts : r.text = text).val

\* the index a revision-prompt read selects: 0 when it must be rejected
\* (e.n is the length of the history the prompt is about)
AcceptedIndex(e) ==
    IF e.arg = <<>> THEN (IF e.n < 2 THEN e.n ELSE 2)
    ELSE IF IsNumeric(e.arg) /\ ValueOf(e.arg) \in 1..e.n THEN ValueOf(e.arg)
    ELSE 0

\* the spellings of "yes" in any mix of cases
YesAnyCase == { <<a, b, c>> : a \in {"y","Y"}, b \in {"e","E"}, c \in {"s","S"} }

\* position of a path in the enumeration order of the walk
Pos(p) == CHOOSE i \in 1..Len(FSUniverse) : FSUniverse[i].path = p

\* the files on disk the walk has to report
IsRolloutEntry(i) ==
    /\ FSUniverse[i].kind = "file"
    /\ Name(FSUniverse[i].path) \in {RolloutName, RolloutCaps}

----------------------------------------------------------------------------
(* Properties *)

\* git reported that the directory is no work tree, or a protected branch
GuardRefused ==
    \E j \in 1..N :
        \/ /\ events[j].op = "git.revparse"
           /\ (~events[j].ok \/ events[j].arg # <<"t","r","u","e","\n">>)
        \/ /\ events[j].op = "git.branch"
           /\ events[j].ok
           /\ events[j].arg \in { StrMaster \o <<"\n">>, StrDevelop \o <<"\n">>,
                                  StrMain \o <<"\n">> }

\* git reported a work tree and a branch that is not protected
GuardPassed ==
    /\ ~GuardRefused
    /\ \E j \in 1..N : events[j].op = "git.branch" /\ events[j].ok

\* C1: when git reports the branch master, develop or main, or reports no
\* work tree, the process has exited with status 1 and has run no git log,
\* git checkout or git commit and read nothing, for a file path or a directory.
C1_GuardRefuses ==
    GuardRefused => /\ pc = "exit"
                    /\ exitCode = 1
                    /\ NoGitWork
                    /\ NoRead

C1_Witness ==
    /\ inputPath = DirName
    /\ pc = "exit"
    /\ exitCode = 1
    /\ \E j \in 1..N : /\ events[j].op = "git.branch"
                       /\ events[j].arg = StrMain \o <<"\n">>

\* C2: git commit is run only right after a successful git checkout of the
\* same file and revision; a failed checkout is followed by no commit and the
\* process exits 1; a failed commit leaves the file restored and uncommitted,
\* is reported, and the process exits 1.
C2_CommitOnlyAfterCheckout ==
    \A j \in 1..N :
        /\ events[j].op = "git.commit" =>
              /\ j > 1
              /\ events[j - 1] =
                    Ev("git.checkout", events[j].path, events[j].arg, 0, TRUE)
        /\ (events[j].op = "git.checkout" /\ ~events[j].ok) =>
              /\ N = j + 1
              /\ events[j + 1] = Printed("print.rollbackError", events[j].path, 0)
              /\ pc = "exit"
              /\ exitCode = 1
              /\ worktree[events[j].path] = <<>>
        /\ (events[j].op = "git.commit" /\ ~events[j].ok) =>
              /\ N = j + 1
              /\ events[j + 1] = Printed("print.rollbackError", events[j].path, 0)
              /\ pc = "exit"
              /\ exitCode = 1
              /\ worktree[events[j].path] = events[j].arg
              /\ \A k \in 1..Len(commits) : commits[k].path # events[j].path

C2_Witness ==
    /\ N > 1
    /\ events[N - 1].op = "git.commit"
    /\ ~events[N - 1].ok
    /\ worktree[events[N - 1].path] = Hash(2)
    /\ exitCode = 1

\* C3: when the accepted selection is index 1 (typed, or the default of a
\* one-entry history), the no-op is reported, no checkout or commit is ever
\* run for that file, and the file's flow ends successfully (the process
\* exits 0, or the next file's history is queried).
C3_IndexOneIsNoop ==
    \A j \in 1..N :
        (events[j].op = "read.index" /\ AcceptedIndex(events[j]) = 1) =>
            /\ j < N
            /\ events[j + 1] = Printed("print.noop", events[j].path, 0)
            /\ \A k \in 1..N : events[k].op \in {"git.checkout", "git.commit"}
                                  => events[k].path # events[j].path
            /\ (N = j + 1) => \/ pc = "exit" /\ exitCode = 0
                              \/ /\ pc = "getFileGitHistory"
                                 /\ exitCode = -1
                                 /\ filePath # events[j].path
            /\ (N > j + 1) => /\ events[j + 2].op = "git.log"
                              /\ events[j + 2].path # events[j].path

C3_Witness ==
    \E j \in 1..N :
        /\ events[j].op = "read.index"
        /\ events[j].arg = <<"1">>
        /\ events[j].n = 3
        /\ j < N
        /\ events[j + 1].op = "print.noop"
        /\ pc = "exit"
        /\ exitCode = 0

\* C4: when the accepted selection is an index i in 2..L (blank input
\* standing for min(2, L)), git checkout is what the program does next, once
\* for that file and never before, with the revision identifier of entry i of
\* the history (entry 1 being the most recent).
C4_CheckoutSelectedRevision ==
    \A j \in 1..N :
        (events[j].op = "read.index" /\ AcceptedIndex(events[j]) \in 2..events[j].n) =>
            /\ (j = N) => /\ pc = "checkout"
                          /\ filePath = events[j].path
                          /\ commit = Hash(AcceptedIndex(events[j]))
            /\ (j < N) => /\ events[j + 1].op = "git.checkout"
                          /\ events[j + 1].path = events[j].path
                          /\ events[j + 1].arg = Hash(AcceptedIndex(events[j]))
            /\ Cardinality({k \in 1..N : /\ events[k].op = "git.checkout"
                                         /\ events[k].path = events[j].path})
                  = (IF j < N THEN 1 ELSE 0)

\* blank input on a two-entry history checks out the second entry
C4_Witness ==
    \E j \in 1..N :
        /\ events[j].op = "read.index"
        /\ events[j].arg = <<>>
        /\ events[j].n = 2
        /\ j < N
        /\ events[j + 1].op = "git.checkout"
        /\ events[j + 1].arg = <<"a","b","c","2">>
        /\ events[j + 1].ok

\* C5: an input that is not a number, or a number outside 1..L, is rejected:
\* the rejection is printed and the same file is prompted again, the process
\* still running and no checkout or commit run; so every no-op and every
\* checkout follows a read whose index lies in 1..L.
C5_InvalidInputRetries ==
    \A j \in 1..N :
        /\ (events[j].op = "read.index" /\ AcceptedIndex(events[j]) = 0) =>
              /\ j < N
              /\ events[j + 1] = Printed("print.invalid", events[j].path, 0)
              /\ (N = j + 1) => (pc = "prompt" /\ exitCode = -1)
              /\ (N > j + 1) => /\ events[j + 2].op = "read.index"
                                /\ events[j + 2].path = events[j].path
        /\ events[j].op \in {"print.noop", "git.checkout"} =>
              /\ j > 1
              /\ events[j - 1].op = "read.index"
              /\ events[j - 1].path = events[j].path
              /\ AcceptedIndex(events[j - 1]) \in 1..events[j - 1].n

\* two consecutive rejections at one prompt (text that is no number, then a
\* number below the range), then an accepted input for the same file
C5_Witness ==
    \E j \in 1..N :
        /\ j + 5 <= N
        /\ events[j].op = "read.index"
        /\ events[j].arg = <<"2","x">>
        /\ events[j + 1].op = "print.invalid"
        /\ events[j + 2].op = "read.index"
        /\ events[j + 2].arg = <<"0">>
        /\ events[j + 2].path = events[j].path
        /\ events[j + 3].op = "print.invalid"
        /\ events[j + 4].op = "read.index"
        /\ events[j + 4].arg = <<"3">>
        /\ events[j + 4].path = events[j].path
        /\ events[j + 5].op = "git.checkout"


\* C6: for an existing regular file whose path does not end in "rollout.yaml"
\* (notes.txt, Rollout.YAML), the program reads nothing from the operator and
\* runs no git log, checkout or commit, and when it has passed the repository
\* guard and exited it has reported "not applicable" and the status is 0.
C6_OtherFileNotApplicable ==
    (inputPath \in {NotesName, RolloutCaps} /\ Stat(inputPath) = "file") =>
        /\ NoRead
        /\ NoGitWork
        /\ (pc = "exit" /\ GuardPassed) =>
              /\ exitCode = 0
              /\ \E j \in 1..N : events[j].op = "print.notApplicable"

\* C7: for a directory holding no file named rollout.yaml in any case, once
\* zero found files are reported nothing is read from the operator.
C7_EmptyDirectoryNoPrompt ==
    \A j \in 1..N :
        (/\ Stat(inputPath) = "dir"
         /\ events[j].op = "print.found"
         /\ events[j].n = 0) =>
            \A k \in (j + 1)..N : events[k].op \notin ReadOps

\* what follows a confirmation the operator declined
AbortedAt(j) ==
    /\ N = j + 1
    /\ events[j + 1].op = "print.aborted"
    /\ pc = "exit"
    /\ exitCode = 0
    /\ NoGitWork

AskedAtMostOnce == Cardinality({j \in 1..N : events[j].op = "read.confirm"}) <= 1

\* C8 as stated: the confirmation is asked once, and any answer other than
\* the literal "yes" aborts with status 0 and no git log, checkout or commit.
C8_OnlyLiteralYes ==
    /\ AskedAtMostOnce
    /\ \A j \in 1..N :
          (events[j].op = "read.confirm" /\ events[j].arg # <<"y","e","s">>)
              => AbortedAt(j)

\* C8 amended: the confirmation is asked once, and any answer other than
\* "yes" in some mix of upper and lower case aborts with status 0 and no git
\* log, checkout or commit (empty input and end of input included).
C8_OnlyYesAnyCase ==
    /\ AskedAtMostOnce
    /\ \A j \in 1..N :
          (events[j].op = "read.confirm" /\ events[j].arg \notin YesAnyCase)
              => AbortedAt(j)

\* the operator declines with an empty line while two files were found
C8_Witness ==
    /\ N > 1
    /\ events[N - 1].op = "read.confirm"
    /\ events[N - 1].arg = <<>>
    /\ events[N - 1].n = 2
    /\ events[N].op = "print.aborted"
    /\ exitCode = 0

\* C9: a git log that exits non-zero, or exits zero with no output, makes the
\* process exit 1 before any prompt; a history that is returned has between
\* 1 and 10 entries and each begins with a revision identifier.
C9_HistoryUnavailable ==
    /\ \A j \in 1..N :
          (events[j].op = "git.log" /\ (~events[j].ok \/ events[j].arg = <<>>)) =>
              /\ N = j + 1
              /\ events[j + 1].op = "print.historyError"
              /\ pc = "exit"
              /\ exitCode = 1
    /\ pc = "prompt" =>
          /\ Len(history) \in 1..10
          /\ \A i \in 1..Len(history) :
                Len(history[i]) > 0 /\ history[i][1] # ","

\* the per-file events of the path at position i of the enumeration
LoggedAt(i) ==
    \E j \in 1..N : events[j].op = "git.log" /\ events[j].path = FSUniverse[i].path

\* C10: the files are handled one at a time in enumeration order: the git
\* commands and prompts never go back to an earlier file and skip none; the
\* history of a file is queried only after the previous file ended in a no-op
\* or in a successful checkout and commit; each file gets at most one log,
\* one checkout and one commit; a failed log, checkout or commit is the last
\* thing done before the exit with status 1; and every commit made stays.
C10_OneFileAtATime ==
    LET perFile == SelectSeq(events, LAMBDA e : e.op \in GitWorkOps \cup {"read.index"})
        made    == SelectSeq(events, LAMBDA e : e.op = "git.commit" /\ e.ok)
    IN
    /\ \A i \in 1..(Len(perFile) - 1) :
          Pos(perFile[i].path) <= Pos(perFile[i + 1].path)
    /\ \A op \in GitWorkOps :
          LET ran == SelectSeq(perFile, LAMBDA e : e.op = op)
          IN  Cardinality({ran[i].path : i \in 1..Len(ran)}) = Len(ran)
    /\ \A j \in 1..N :
          (events[j].op = "git.log" /\ inDir) =>
              /\ \A i \in fs : ( /\ IsRolloutEntry(i)
                                 /\ i < Pos(events[j].path) ) => LoggedAt(i)
              /\ \/ events[j - 1].op = "print.proceeding"
                 \/ events[j - 1].op = "print.noop"
                 \/ /\ events[j - 1].op = "print.success"
                    /\ events[j - 2].op = "git.commit" /\ events[j - 2].ok
                    /\ events[j - 3].op = "git.checkout" /\ events[j - 3].ok
    /\ \A j \in 1..N :
          (events[j].op \in GitWorkOps /\ ~events[j].ok) =>
              /\ N = j + 1
              /\ pc = "exit"
              /\ exitCode = 1
    /\ commits = [i \in 1..Len(made) |-> [path |-> made[i].path, rev |-> made[i].arg]]

\* the second file's checkout fails after the first file was committed
C10_Witness ==
    /\ inDir
    /\ Len(commits) = 1
    /\ N > 1
    /\ events[N - 1].op = "git.checkout"
    /\ ~events[N - 1].ok
    /\ events[N - 1].path # commits[1].path
    /\ exitCode = 1

====
